---- MODULE Spec2Model ----
(***************************************************************************)
(* TruckPooling: feasible-trip enumeration (Trip_generation.py), the       *)
(* set-partitioning model and solution-pool extraction (Set_covering.py)   *)
(* and the per-instance loop that drives them (main.py).                   *)
(*                                                                         *)
(* Numbers.  Weights, volumes, slots and distances are integers.  A score  *)
(* is the quotient trip_distance / direct_distances; it is kept as a       *)
(* reduced fraction <<num, den>> and compared exactly.  The quotient 0/0   *)
(* (numpy float64 division, which yields nan and a warning rather than an  *)
(* exception) is the value NaN.  The detour test                           *)
(* trip_distance > direct_distances * (1 + 0.2) is evaluated as            *)
(* 10 * trip_distance > 12 * direct_distances, which agrees with the       *)
(* double-precision evaluation on every integer pair in 0..400.            *)
(***************************************************************************)
EXTENDS Integers, Sequences, FiniteSets, TLC

\* ---------------------------------------------------------------- bounds
MaxN == 3            \* deliveries per instance: 1..MaxN
NumInstances == 2    \* instances in the batch
PoolSolutions == 2   \* solutions the solver's pool retains

\* ------------------------------------------------------ program constants
MAX_PICKUPS == 3
MAX_WAIT_SLOT == 2
\* MAX_DISTANCE_INCREASE_RATIO = 0.2 as the fraction RatioNum / RatioDen
RatioNum == 2
RatioDen == 10
capacity_kg == 4000
capacity_m3 == 15

\* ------------------------------------------------------------ the inputs
Depot == "Mpx"

\* The distance table: symmetric, zero on the diagonal, off-diagonal
\* entries in 10..100 as generate_instances draws them.
Locations == {"A", "B", "Mpx"}

DistTable ==
  [p \in Locations \X Locations |->
     IF p[1] = p[2] THEN 0
     ELSE IF {p[1], p[2]} = {"A", "Mpx"} THEN 10
     ELSE IF {p[1], p[2]} = {"B", "Mpx"} THEN 30
     ELSE 20]

\* A delivery without its id.  "X" is a pickup location the table lacks.
Kind(w, v, ready, wend, loc, aw, av) ==
  [weight_kg |-> w, volume_m3 |-> v, goods_ready |-> ready,
   window_end |-> wend, pickup_location |-> loc,
   available_weight |-> aw, available_volume |-> av]

DeliveryKinds ==
  { Kind(1000, 5, 0, 10, "A",   1000, 5),   \* plain, at A
    Kind(1000, 5, 2, 10, "A",   1000, 5),   \* ready two slots later
    Kind(1000, 5, 2, 10, "B",   1000, 5),   \* the same, at B
    Kind(1000, 5, 3, 10, "B",   1000, 5),   \* ready three slots later, at B
    Kind(2500, 5, 0, 10, "A",   2500, 5),   \* heavy: two exceed capacity_kg
    Kind(1000, 8, 2, 10, "B",   1000, 8),   \* bulky: two exceed capacity_m3
    Kind(1000, 5, 0, 1,  "B",   1000, 5),   \* early deadline
    Kind(1000, 5, 2, 1,  "A",   1000, 5),   \* ready after its own deadline
    Kind(1000, 5, 0, 10, "A",   500,  5),   \* available_weight < weight_kg
    Kind(1000, 5, 0, 10, "B",   1000, 4),   \* available_volume < volume_m3
    Kind(1000, 5, 0, 10, "Mpx", 1000, 5),   \* picked up at the depot
    Kind(1000, 5, 0, 10, "X",   1000, 5),   \* location not in the table
    Kind(1000, 5, 0, 10, "X",   500,  5) }  \* not in the table, and over
                                            \* its available weight

\* The kinds among which the solver is exercised: two that bundle with
\* themselves and, in one order only, with each other, at different scores;
\* one that no trip can hold; one at the depot; one at an unknown location.
SolveKinds ==
  { Kind(1000, 5, 0, 10, "A",   1000, 5),
    Kind(1000, 5, 2, 10, "B",   1000, 5),
    Kind(1000, 5, 0, 10, "A",   500,  5),
    Kind(1000, 5, 0, 10, "Mpx", 1000, 5),
    Kind(1000, 5, 0, 10, "X",   1000, 5) }

\* Deliveries at one pickup location, 10 from the depot, ready at slot 0 or
\* 1, window end 10, well inside the vehicle's capacity.
ScenarioKinds ==
  { Kind(1000, 5, 0, 10, "A", 1000, 5),
    Kind(1000, 5, 1, 10, "A", 1000, 5) }

\* Delivery(id=f"D{i}", ...): the id is the position in the instance, 0-based
Delivery(i, k) ==
  [id |-> i - 1, weight_kg |-> k.weight_kg, volume_m3 |-> k.volume_m3,
   goods_ready |-> k.goods_ready, window_end |-> k.window_end,
   pickup_location |-> k.pickup_location,
   available_weight |-> k.available_weight,
   available_volume |-> k.available_volume]

\* ------------------------------------------------------------ arithmetic
Max(a, b) == IF a >= b THEN a ELSE b
Min(a, b) == IF a <= b THEN a ELSE b

RECURSIVE GCD(_, _)
GCD(a, b) == IF b = 0 THEN a ELSE GCD(b, a % b)

NaN == <<0, 0>>
IsNaN(q) == q[2] = 0

\* a / b on floats whose values are the nonnegative integers a and b
Quot(a, b) == IF b = 0 THEN NaN ELSE <<a \div GCD(a, b), b \div GCD(a, b)>>

QAdd(p, q) ==
  IF IsNaN(p) \/ IsNaN(q) THEN NaN
  ELSE Quot(p[1] * q[2] + q[1] * p[2], p[2] * q[2])

QLess(p, q) == ~IsNaN(p) /\ ~IsNaN(q) /\ p[1] * q[2] < q[1] * p[2]
QLeq(p, q) == ~IsNaN(p) /\ ~IsNaN(q) /\ p[1] * q[2] <= q[1] * p[2]

\* sum(...) over a list of numbers
SumSeq(s) ==
  LET RECURSIVE Upto(_)
      Upto(i) == IF i = 0 THEN 0 ELSE Upto(i - 1) + s[i]
  IN Upto(Len(s))

\* sum(...) over a list of quotients
QSumSeq(s) ==
  LET RECURSIVE Upto(_)
      Upto(i) == IF i = 0 THEN <<0, 1>> ELSE QAdd(Upto(i - 1), s[i])
  IN Upto(Len(s))

\* ------------------------------------------------- Trip_generation.py
\* dist_matrix.at[a, b] raises KeyError when a or b is not a label
KeyError == [raised |-> TRUE, value |-> 0]
Value(x) == [raised |-> FALSE, value |-> x]

compute_trip_distance(loc_sequence) ==
  LET RECURSIVE Loop(_, _)
      Loop(i, dist) ==
        IF i > Len(loc_sequence) - 1 THEN Value(dist)
        ELSE IF <<loc_sequence[i], loc_sequence[i + 1]>> \notin DOMAIN DistTable
             THEN KeyError
             ELSE Loop(i + 1, dist + DistTable[<<loc_sequence[i], loc_sequence[i + 1]>>])
  IN Loop(1, 0)

\* sorted(d.goods_ready for d in deliveries): insertion into a sorted list
RECURSIVE InsertSorted(_, _)
InsertSorted(x, s) ==
  IF s = <<>> THEN <<x>>
  ELSE IF x < s[1] THEN <<x>> \o s
  ELSE <<s[1]>> \o InsertSorted(x, Tail(s))

RECURSIVE Sorted(_)
Sorted(s) == IF s = <<>> THEN <<>> ELSE InsertSorted(s[1], Sorted(Tail(s)))

max_wait_time(combo) ==
  LET times == Sorted([i \in 1..Len(combo) |-> combo[i].goods_ready])
      \* max(t2 - t1 for consecutive t1, t2)
      RECURSIVE MaxGap(_, _)
      MaxGap(i, m) ==
        IF i >= Len(times) THEN m
        ELSE MaxGap(i + 1, Max(m, times[i + 1] - times[i]))
  IN IF Len(times) < 2 THEN 0 ELSE MaxGap(2, times[2] - times[1])

\* check_capacity without the per-delivery available_* comparison
check_capacity_totals_only(combo, max_weight, max_volume) ==
  SumSeq([i \in 1..Len(combo) |-> combo[i].weight_kg]) <= max_weight
    /\ SumSeq([i \in 1..Len(combo) |-> combo[i].volume_m3]) <= max_volume

check_capacity(combo, max_weight, max_volume) ==
  LET total_weight == SumSeq([i \in 1..Len(combo) |-> combo[i].weight_kg])
      total_volume == SumSeq([i \in 1..Len(combo) |-> combo[i].volume_m3])
      avail_weight_ok == \A i \in 1..Len(combo) :
                            combo[i].available_weight >= combo[i].weight_kg
      avail_volume_ok == \A i \in 1..Len(combo) :
                            combo[i].available_volume >= combo[i].volume_m3
  IN total_weight <= max_weight /\ total_volume <= max_volume
       /\ avail_weight_ok /\ avail_volume_ok

check_time_window(combo) ==
  LET RECURSIVE Latest(_, _)
      Latest(i, m) == IF i > Len(combo) THEN m
                      ELSE Latest(i + 1, Max(m, combo[i].goods_ready))
      RECURSIVE Earliest(_, _)
      Earliest(i, m) == IF i > Len(combo) THEN m
                        ELSE Earliest(i + 1, Min(m, combo[i].window_end))
      latest_ready == Latest(2, combo[1].goods_ready)
      earliest_due == Earliest(2, combo[1].window_end)
  IN latest_ready <= earliest_due

\* itertools.combinations(range(lo, n + 1), r): index tuples, lexicographic
RECURSIVE Combinations(_, _, _)
Combinations(lo, n, r) ==
  IF r = 0 THEN << <<>> >>
  ELSE IF lo > n THEN <<>>
  ELSE LET rest == Combinations(lo + 1, n, r - 1)
       IN [j \in 1..Len(rest) |-> <<lo>> \o rest[j]]
            \o Combinations(lo + 1, n, r)

\* the outer loop as range(1, MAX_PICKUPS): the largest size is never tried
RECURSIVE AllCombos_short(_, _)
AllCombos_short(n, r) ==
  IF r > MAX_PICKUPS - 1 THEN <<>>
  ELSE Combinations(1, n, r) \o AllCombos_short(n, r + 1)

\* the combinations in the order the two nested loops visit them
RECURSIVE AllCombos(_, _)
AllCombos(n, r) ==
  IF r > MAX_PICKUPS THEN <<>>
  ELSE Combinations(1, n, r) \o AllCombos(n, r + 1)

\* trip_distance > direct_distances * (1 + MAX_DISTANCE_INCREASE_RATIO)
DetourExceeded(trip_distance, direct_distances) ==
  RatioDen * trip_distance > (RatioDen + RatioNum) * direct_distances

\* the score as the trip distance itself, not normalised
score_of_km(trip_distance, direct_distances) == Quot(trip_distance, 1)

\* score = trip_distance / direct_distances
score_of(trip_distance, direct_distances) == Quot(trip_distance, direct_distances)

\* The loop body for one combination: "skip", "raise", or the trip appended
TripOf(dels, idxs) ==
  LET combo == [i \in 1..Len(idxs) |-> dels[idxs[i]]]
      loc_sequence == [i \in 1..Len(combo) |-> combo[i].pickup_location]
                        \o <<Depot>>
      trip_distance == compute_trip_distance(loc_sequence)
      directs == [i \in 1..Len(combo) |->
                    compute_trip_distance(<<combo[i].pickup_location, Depot>>)]
      direct_distances == SumSeq([i \in 1..Len(combo) |-> directs[i].value])
  IN IF ~check_capacity(combo, capacity_kg, capacity_m3) THEN [kind |-> "skip"]
     ELSE IF ~check_time_window(combo) THEN [kind |-> "skip"]
     ELSE IF max_wait_time(combo) > MAX_WAIT_SLOT THEN [kind |-> "skip"]
     ELSE IF trip_distance.raised THEN [kind |-> "raise"]
     ELSE IF \E i \in 1..Len(combo) : directs[i].raised THEN [kind |-> "raise"]
     ELSE IF DetourExceeded(trip_distance.value, direct_distances)
          THEN [kind |-> "skip"]
     ELSE [kind |-> "trip",
           trip |-> [source |-> combo[1].id,
                     shipment_ids |-> [i \in 1..Len(combo) |-> combo[i].id],
                     total_km |-> trip_distance.value,
                     total_weight |-> SumSeq([i \in 1..Len(combo) |-> combo[i].weight_kg]),
                     total_volume |-> SumSeq([i \in 1..Len(combo) |-> combo[i].volume_m3]),
                     score |-> score_of(trip_distance.value, direct_distances)]]

\* generate_feasible_trips: the trip list, or the KeyError that ends the call
generate_feasible_trips(dels) ==
  LET combos == AllCombos(Len(dels), 1)
      RECURSIVE Loop(_, _)
      Loop(k, feasible_trips) ==
        IF k > Len(combos) THEN [raised |-> FALSE, trips |-> feasible_trips]
        ELSE LET t == TripOf(dels, combos[k])
             IN IF t.kind = "raise" THEN [raised |-> TRUE, trips |-> <<>>]
                ELSE IF t.kind = "skip" THEN Loop(k + 1, feasible_trips)
                ELSE Loop(k + 1, Append(feasible_trips, t.trip))
  IN Loop(1, <<>>)

\* ---------------------------------------------------- Set_covering.py
\* d_id in t["shipment_ids"]
InTrip(d_id, t) == \E j \in 1..Len(t.shipment_ids) : t.shipment_ids[j] = d_id

\* the covering constraint as a cover (>= 1) rather than a partition
CoverConstr_at_least(xn, trips, d_id) ==
  SumSeq([i \in 1..Len(trips) |-> IF InTrip(d_id, trips[i]) THEN xn[i] ELSE 0]) >= 1

\* quicksum(x[i] for i, t in enumerate(trips) if d_id in t["shipment_ids"]) == 1
\* evaluated on the assignment xn (an empty sum is 0)
CoverConstr(xn, trips, d_id) ==
  SumSeq([i \in 1..Len(trips) |-> IF InTrip(d_id, trips[i]) THEN xn[i] ELSE 0]) = 1

\* the assignments of the binary variables that satisfy every covering
\* constraint, one constraint per delivery of the instance
FeasibleAssignments(trips, dels) ==
  { xn \in [1..Len(trips) -> {0, 1}] :
      \A k \in 1..Len(dels) : CoverConstr(xn, trips, dels[k].id) }

\* selected_indices = [i for i, val in enumerate(xn_list) if val > 0.5]
\* as positions of the trip list, ascending
RECURSIVE SelectedFrom(_, _)
SelectedFrom(xn, i) ==
  IF i > Len(xn) THEN <<>>
  ELSE IF 2 * xn[i] > 1 THEN <<i>> \o SelectedFrom(xn, i + 1)
  ELSE SelectedFrom(xn, i + 1)

\* the objective over total_km instead of score
Objective_km(xn, trips) ==
  QSumSeq([i \in 1..Len(trips) |->
             IF xn[i] = 1 THEN <<trips[i].total_km, 1>> ELSE <<0, 1>>])

\* quicksum(x[i] * trips[i]["score"] for i in x) evaluated on xn
Objective(xn, trips) ==
  QSumSeq([i \in 1..Len(trips) |->
             IF xn[i] = 1 THEN trips[i].score ELSE <<0, 1>>])

\* What model.optimize() may leave behind: the status and the pool, in the
\* order the solver stores it.  The pool holds distinct assignments that
\* satisfy the constraints, at most PoolSolutions of them; with status
\* OPTIMAL it holds one of least objective; on TIME_LIMIT it holds whatever
\* incumbents were found, possibly none.
Pools(feas) ==
  UNION { { p \in [1..m -> feas] : \A a, b \in 1..m : a # b => p[a] # p[b] } :
          m \in 0..PoolSolutions }

SolverOutcomes(trips, dels) ==
  LET feas == FeasibleAssignments(trips, dels)
      best == { xn \in feas :
                  \A y \in feas : QLeq(Objective(xn, trips), Objective(y, trips)) }
      pools == Pools(feas)
  IN IF feas = {} THEN { [status |-> "INFEASIBLE", pool |-> <<>>] }
     ELSE { [status |-> "OPTIMAL", pool |-> p] :
              p \in { q \in pools : \E a \in 1..Len(q) : q[a] \in best } }
          \cup { [status |-> "TIME_LIMIT", pool |-> p] : p \in pools }

\* the dict appended for pool entry s (solution_number is 0-based)
Solution(s, xn, trips) ==
  LET selected_indices == SelectedFrom(xn, 1)
      selected_trip_dicts == [j \in 1..Len(selected_indices) |-> trips[selected_indices[j]]]
      n == Len(selected_trip_dicts)
  IN [solution_number |-> s - 1,
      obj |-> Objective(xn, trips),
      selected_trip_indices |-> [j \in 1..n |-> selected_indices[j] - 1],
      selected_trips |-> selected_trip_dicts,
      total_km |-> SumSeq([j \in 1..n |-> selected_trip_dicts[j].total_km]),
      total_weight |-> SumSeq([j \in 1..n |-> selected_trip_dicts[j].total_weight]),
      total_volume |-> SumSeq([j \in 1..n |-> selected_trip_dicts[j].total_volume]),
      total_score |-> QSumSeq([j \in 1..n |-> selected_trip_dicts[j].score])]

\* sorted(solutions, key=lambda z: z["obj"]): stable, ascending
RECURSIVE InsertByObj(_, _)
InsertByObj(x, s) ==
  IF s = <<>> THEN <<x>>
  ELSE IF QLess(x.obj, s[1].obj) THEN <<x>> \o s
  ELSE <<s[1]>> \o InsertByObj(x, Tail(s))

\* the batch returned in pool order
SortByObj_pool_order(s) == s

\* the batch sorted with reverse=True
RECURSIVE SortByObj_descending(_)
SortByObj_descending(s) ==
  LET RECURSIVE Ins(_, _)
      Ins(x, t) ==
        IF t = <<>> THEN <<x>>
        ELSE IF QLess(t[1].obj, x.obj) THEN <<x>> \o t
        ELSE <<t[1]>> \o Ins(x, Tail(t))
  IN IF s = <<>> THEN <<>>
     ELSE Ins(s[Len(s)], SortByObj_descending(SubSeq(s, 1, Len(s) - 1)))

RECURSIVE SortByObj(_)
SortByObj(s) ==
  IF s = <<>> THEN <<>>
  ELSE InsertByObj(s[Len(s)], SortByObj(SubSeq(s, 1, Len(s) - 1)))

\* the value solve_set_covering returns for a pool
ExtractSolutions(xns, trips) ==
  IF Len(xns) = 0 THEN <<>>
  ELSE SortByObj([s \in 1..Len(xns) |-> Solution(s, xns[s], trips)])

\* a nan objective coefficient is rejected by the solver library
HasNaNScore(trips) == \E i \in 1..Len(trips) : IsNaN(trips[i].score)

\* --------------------------------------------------------------- main.py
\* pc: the statement of the instance loop that runs next
\* idx, deliveries, feasible_trips, solutions: main's variables of those names
\* optimizeCalled: model.optimize() ran for this instance
\* status, pool: model.Status and the solver's pool after optimize()
\* error: the exception that ended the process, if any
VARIABLES pc, idx, deliveries, feasible_trips, optimizeCalled, status, pool,
          solutions, error

vars == <<pc, idx, deliveries, feasible_trips, optimizeCalled, status, pool,
          solutions, error>>

Init ==
  /\ pc = "loop"
  /\ idx = 0
  /\ deliveries = <<>>
  /\ feasible_trips = <<>>
  /\ optimizeCalled = FALSE
  /\ status = "none"
  /\ pool = <<>>
  /\ solutions = <<>>
  /\ error = "none"

\* for idx, deliveries in enumerate(deliveries_list): the next instance is
\* a list of 1..MaxN deliveries of the kinds in K
NextInstanceOf(K) ==
  /\ pc = "loop"
  /\ idx < NumInstances
  /\ \E n \in 1..MaxN : \E ks \in [1..n -> K] :
        deliveries' = [i \in 1..n |-> Delivery(i, ks[i])]
  /\ pc' = "generate"
  /\ feasible_trips' = <<>>
  /\ optimizeCalled' = FALSE
  /\ status' = "none"
  /\ pool' = <<>>
  /\ solutions' = <<>>
  /\ UNCHANGED <<idx, error>>

NextInstance == NextInstanceOf(DeliveryKinds)

\* feasible_trips = generate_feasible_trips(...); an exception leaves the loop
GenerateTrips ==
  /\ pc = "generate"
  /\ LET r == generate_feasible_trips(deliveries)
     IN IF r.raised
        THEN /\ pc' = "aborted"
             /\ error' = "KeyError"
             /\ UNCHANGED feasible_trips
        ELSE /\ pc' = "solve"
             /\ feasible_trips' = r.trips
             /\ UNCHANGED error
  /\ UNCHANGED <<idx, deliveries, optimizeCalled, status, pool, solutions>>

\* solutions = solve_set_covering(LOGDIR, i_name, feasible_trips, deliveries)
SolveSetCovering ==
  /\ pc = "solve"
  /\ IF HasNaNScore(feasible_trips)
     THEN /\ pc' = "aborted"
          /\ error' = "GurobiError"
          /\ optimizeCalled' \in BOOLEAN
          /\ UNCHANGED <<status, pool, solutions>>
     ELSE \E o \in SolverOutcomes(feasible_trips, deliveries) :
            /\ optimizeCalled' = TRUE
            /\ status' = o.status
            /\ pool' = o.pool
            /\ solutions' = ExtractSolutions(o.pool, feasible_trips)
            /\ pc' = "write"
            /\ UNCHANGED error
  /\ UNCHANGED <<idx, deliveries, feasible_trips>>

\* The solution files and the summary are written and the loop advances.
\* The loop's variables are rebound before they are read again, so they
\* are cleared here.
WriteSolutions ==
  /\ pc = "write"
  /\ idx' = idx + 1
  /\ pc' = IF idx + 1 < NumInstances THEN "loop" ELSE "done"
  /\ deliveries' = <<>>
  /\ feasible_trips' = <<>>
  /\ optimizeCalled' = FALSE
  /\ status' = "none"
  /\ pool' = <<>>
  /\ solutions' = <<>>
  /\ UNCHANGED error

Next == NextInstance \/ GenerateTrips \/ SolveSetCovering \/ WriteSolutions

\* the batch: every instance of the loop, over all kinds of delivery
Spec == Init /\ [][Next]_vars

\* generate_feasible_trips alone, applied to one instance of any kinds
NextGen == NextInstance \/ GenerateTrips

SpecGen == Init /\ [][NextGen]_vars

\* one instance of the solver's kinds, generated and solved
NextSolveInstance == NextInstanceOf(SolveKinds)

NextSolve == NextSolveInstance \/ GenerateTrips \/ SolveSetCovering

SpecSolve == Init /\ [][NextSolve]_vars

\* one instance of three deliveries of the scenario's kinds
NextScenarioInstance ==
  /\ pc = "loop"
  /\ idx < NumInstances
  /\ \E ks \in [1..3 -> ScenarioKinds] :
        deliveries' = [i \in 1..3 |-> Delivery(i, ks[i])]
  /\ pc' = "generate"
  /\ feasible_trips' = <<>>
  /\ optimizeCalled' = FALSE
  /\ status' = "none"
  /\ pool' = <<>>
  /\ solutions' = <<>>
  /\ UNCHANGED <<idx, error>>

NextScenario == NextScenarioInstance \/ GenerateTrips \/ SolveSetCovering

SpecScenario == Init /\ [][NextScenario]_vars

\* ============================================================ properties
\* Vocabulary of the properties, stated on the deliveries themselves and on
\* the distance table, without the generator's or the builder's operators.
Generated == pc \in {"solve", "write"}

DeliveryIds == { deliveries[k].id : k \in 1..Len(deliveries) }
ById(d_id) == CHOOSE d \in { deliveries[k] : k \in 1..Len(deliveries) } : d.id = d_id
IdSet(t) == { t.shipment_ids[j] : j \in 1..Len(t.shipment_ids) }
MembersOf(ids) == { ById(d_id) : d_id \in ids }

RECURSIVE WeightOf(_)
WeightOf(M) ==
  IF M = {} THEN 0
  ELSE LET d == CHOOSE x \in M : TRUE IN d.weight_kg + WeightOf(M \ {d})

RECURSIVE VolumeOf(_)
VolumeOf(M) ==
  IF M = {} THEN 0
  ELSE LET d == CHOOSE x \in M : TRUE IN d.volume_m3 + VolumeOf(M \ {d})

CapacityHolds(M) ==
  /\ WeightOf(M) <= capacity_kg
  /\ VolumeOf(M) <= capacity_m3
  /\ \A d \in M : d.available_weight >= d.weight_kg /\ d.available_volume >= d.volume_m3

TimeWindowHolds(M) == \A a, b \in M : a.goods_ready <= b.window_end

\* every ready time but the earliest has an earlier-or-equal one, of another
\* member, at most MAX_WAIT_SLOT before it
WaitHolds(M) ==
  \A a \in M :
     \/ \A b \in M : a.goods_ready <= b.goods_ready
     \/ \E b \in M : b.goods_ready < a.goods_ready
                       /\ a.goods_ready - b.goods_ready <= MAX_WAIT_SLOT

\* the route through the pickups of ids, in that order, then the depot
RouteLocs(ids) == [j \in 1..Len(ids) |-> ById(ids[j]).pickup_location] \o <<Depot>>
RouteKnown(ids) == \A j \in 1..Len(ids) : ById(ids[j]).pickup_location \in Locations
RouteKm(ids) ==
  LET locs == RouteLocs(ids)
  IN SumSeq([j \in 1..Len(ids) |-> DistTable[<<locs[j], locs[j + 1]>>]])
DirectKm(ids) ==
  SumSeq([j \in 1..Len(ids) |-> DistTable[<<ById(ids[j]).pickup_location, Depot>>]])

DetourHolds(ids) ==
  RouteKnown(ids) /\ 10 * RouteKm(ids) <= 12 * DirectKm(ids)

FeasibleIds(ids) ==
  LET M == MembersOf({ ids[j] : j \in 1..Len(ids) })
  IN CapacityHolds(M) /\ TimeWindowHolds(M) /\ WaitHolds(M) /\ DetourHolds(ids)

\* the ids of a set of list positions, in list order
RECURSIVE IdsInOrder(_, _)
IdsInOrder(S, k) ==
  IF k > Len(deliveries) THEN <<>>
  ELSE IF k \in S THEN <<deliveries[k].id>> \o IdsInOrder(S, k + 1)
  ELSE IdsInOrder(S, k + 1)

\* C1: in every returned Solution the selected trips (value > 0.5) partition
\* the delivery ids of the instance: each id is in exactly one selected trip
\* and no selected trip holds any other id.
C1_CoveragePartition ==
  pc = "write" =>
    \A s \in 1..Len(solutions) :
      LET sol == solutions[s]
          xn == pool[sol.solution_number + 1]
          sel == sol.selected_trips
      IN /\ Len(sel) = Len(sol.selected_trip_indices)
         /\ \A j \in 1..Len(sel) :
               sel[j] = feasible_trips[sol.selected_trip_indices[j] + 1]
         /\ { sol.selected_trip_indices[j] + 1 : j \in 1..Len(sel) }
               = { i \in 1..Len(feasible_trips) : 2 * xn[i] > 1 }
         /\ \A d_id \in DeliveryIds :
               Cardinality({ j \in 1..Len(sel) : d_id \in IdSet(sel[j]) }) = 1
         /\ \A j \in 1..Len(sel) : IdSet(sel[j]) \subseteq DeliveryIds

\* a returned Solution of several trips, one of them a bundle, while some
\* other candidate trip overlaps a selected one
C1_Witness ==
  /\ pc = "write"
  /\ \E s \in 1..Len(solutions) :
       /\ Len(solutions[s].selected_trips) >= 2
       /\ \E j \in 1..Len(solutions[s].selected_trips) :
            Len(solutions[s].selected_trips[j].shipment_ids) >= 2
       /\ Len(feasible_trips) > Len(solutions[s].selected_trips)

\* C2: every generated trip passes the capacity, time-window, wait-time and
\* detour checks when they are re-evaluated on its member deliveries; a
\* delivery over its available weight or volume is in no trip.
C2_FeasibilitySoundness ==
  Generated =>
    \A i \in 1..Len(feasible_trips) :
      LET t == feasible_trips[i]
          M == MembersOf(IdSet(t))
      IN /\ IdSet(t) \subseteq DeliveryIds
         /\ CapacityHolds(M)
         /\ TimeWindowHolds(M)
         /\ WaitHolds(M)
         /\ DetourHolds(t.shipment_ids)

\* trips were generated from an instance in which one delivery is over its
\* available weight and two others travel together
C2_Witness ==
  /\ pc = "solve"
  /\ \E k \in 1..Len(deliveries) :
       deliveries[k].available_weight < deliveries[k].weight_kg
  /\ \E i \in 1..Len(feasible_trips) : Len(feasible_trips[i].shipment_ids) >= 2

RECURSIVE ExactCovers(_, _)
ExactCovers(uncovered, chosen) ==
  IF uncovered = {} THEN {chosen}
  ELSE LET d == CHOOSE x \in uncovered : \A y \in uncovered : x <= y
           cands == { i \in 1..Len(feasible_trips) :
                        /\ d \in IdSet(feasible_trips[i])
                        /\ IdSet(feasible_trips[i]) \subseteq uncovered }
       IN UNION { ExactCovers(uncovered \ IdSet(feasible_trips[i]), chosen \cup {i}) :
                  i \in cands }

RECURSIVE ScoreOfCover(_)
ScoreOfCover(P) ==
  IF P = {} THEN <<0, 1>>
  ELSE LET i == CHOOSE x \in P : TRUE
       IN QAdd(feasible_trips[i].score, ScoreOfCover(P \ {i}))

SelectedScore(sol) ==
  ScoreOfCover({ sol.selected_trip_indices[j] + 1 :
                 j \in 1..Len(sol.selected_trip_indices) })

\* C4: when the solver ends with status OPTIMAL, the first Solution of the
\* returned batch has the least total score among all sets of candidate
\* trips that cover every delivery id exactly once.
C4_FirstIsMinimum ==
  (pc = "write" /\ status = "OPTIMAL") =>
    /\ Len(solutions) >= 1
    /\ \A P \in ExactCovers(DeliveryIds, {}) :
         QLeq(SelectedScore(solutions[1]), ScoreOfCover(P))

\* an optimal solve whose pool lists a worse partition before the best one
C4_Witness ==
  /\ pc = "write"
  /\ status = "OPTIMAL"
  /\ Len(solutions) = 2
  /\ solutions[1].solution_number = 1
  /\ \E P \in ExactCovers(DeliveryIds, {}) :
       QLess(SelectedScore(solutions[1]), ScoreOfCover(P))

\* C5: the returned batch is ascending in obj whatever the order of the
\* solver's pool; each entry carries in solution_number the pool index it
\* was read from, and these numbers need not be ascending.
C5_SortedByObjective ==
  pc = "write" =>
    /\ Len(solutions) = Len(pool)
    /\ \A i \in 1..(Len(solutions) - 1) : QLeq(solutions[i].obj, solutions[i + 1].obj)
    /\ { solutions[i].solution_number : i \in 1..Len(solutions) } = 0..(Len(pool) - 1)
    /\ \A i \in 1..Len(solutions) :
         LET xn == pool[solutions[i].solution_number + 1]
         IN /\ { solutions[i].selected_trip_indices[j] + 1 :
                   j \in 1..Len(solutions[i].selected_trip_indices) }
                 = { k \in 1..Len(feasible_trips) : xn[k] = 1 }
            /\ solutions[i].obj = SelectedScore(solutions[i])

\* a batch whose first entry came from pool index 1 and second from index 0
C5_Witness ==
  /\ pc = "write"
  /\ Len(solutions) = 2
  /\ solutions[1].solution_number = 1
  /\ solutions[2].solution_number = 0
  /\ QLess(solutions[1].obj, solutions[2].obj)

\* C6: generate_feasible_trips returns a trip list only when every pickup
\* location of the instance is in the distance table; a delivery whose
\* location is absent makes it raise, whatever the other checks say.
C6_UnknownLocationRaises ==
  pc = "solve" =>
    \A k \in 1..Len(deliveries) : deliveries[k].pickup_location \in Locations

\* C7: the solver's optimize step is reached only when every delivery id
\* of the instance is in the shipment_ids of some candidate trip.
C7_UncoverableFlaggedBeforeSolve ==
  optimizeCalled =>
    \A d_id \in DeliveryIds :
       \E i \in 1..Len(feasible_trips) : d_id \in IdSet(feasible_trips[i])

\* C8: the solve step of an instance is preceded by a non-empty candidate
\* trip list.
C8_NoSolveWithoutTrips == optimizeCalled => Len(feasible_trips) > 0

\* C9: a failure while processing an instance never ends the batch while
\* later instances remain.
C9_FailureDoesNotStopBatch == ~(pc = "aborted" /\ idx + 1 < NumInstances)

\* C10: every trip generate_feasible_trips appends has a finite score,
\* also when the summed direct distance of its members is 0.
C10_FiniteScores ==
  pc = "solve" =>
    \A i \in 1..Len(feasible_trips) : ~IsNaN(feasible_trips[i].score)

\* D0, D1, D2 at the same pickup location, ready at slots 0, 1, 1
ScenarioDeliveries ==
  << Delivery(1, Kind(1000, 5, 0, 10, "A", 1000, 5)),
     Delivery(2, Kind(1000, 5, 1, 10, "A", 1000, 5)),
     Delivery(3, Kind(1000, 5, 1, 10, "A", 1000, 5)) >>

ScenarioSolved == pc = "write" /\ deliveries = ScenarioDeliveries

SelectsOnlyTheTriple(sol) ==
  /\ Len(sol.selected_trips) = 1
  /\ sol.selected_trips[1].shipment_ids = <<0, 1, 2>>

\* C11 as stated: in the scenario the lowest-objective Solution returned
\* selects exactly one trip, the triple D0, D1, D2.
C11_ScenarioSelectsTriple_AsStated ==
  (ScenarioSolved /\ Len(solutions) >= 1) => SelectsOnlyTheTriple(solutions[1])

\* C11: in the scenario the generator yields the three singletons, the
\* three pairs and the triple, and when the solver ends with status OPTIMAL
\* the lowest-objective Solution returned selects exactly one trip, the
\* triple D0, D1, D2.
C11_ScenarioSelectsTriple ==
  ScenarioSolved =>
    /\ { feasible_trips[i].shipment_ids : i \in 1..Len(feasible_trips) }
         = { <<0>>, <<1>>, <<2>>, <<0, 1>>, <<0, 2>>, <<1, 2>>, <<0, 1, 2>> }
    /\ Len(feasible_trips) = 7
    /\ status = "OPTIMAL" =>
         (Len(solutions) >= 1 /\ SelectsOnlyTheTriple(solutions[1]))

\* the scenario solved to optimality with the three singletons stored in
\* the pool before the triple
C11_Witness ==
  /\ ScenarioSolved
  /\ status = "OPTIMAL"
  /\ Len(solutions) = 2
  /\ solutions[1].solution_number = 1
  /\ Len(solutions[2].selected_trips) = 3

\* a delivery that passes the capacity and time-window checks on its own
\* and is picked up away from the depot
SoloFeasible(d) ==
  /\ d.weight_kg <= capacity_kg /\ d.volume_m3 <= capacity_m3
  /\ d.available_weight >= d.weight_kg /\ d.available_volume >= d.volume_m3
  /\ d.goods_ready <= d.window_end
  /\ d.pickup_location \in Locations
  /\ DistTable[<<d.pickup_location, Depot>>] > 0

AllSoloFeasible == \A k \in 1..Len(deliveries) : SoloFeasible(deliveries[k])

\* the positions of the trips that hold a single delivery
SingletonTrips == { i \in 1..Len(feasible_trips) : Len(feasible_trips[i].shipment_ids) = 1 }

\* C12 as stated: when every delivery is feasible on its own, the solve
\* returns a non-empty batch whose lowest objective is at most N.
C12_SingletonsBoundObjective_AsStated ==
  (pc = "write" /\ AllSoloFeasible) =>
    /\ Len(solutions) >= 1
    /\ QLeq(solutions[1].obj, <<Len(deliveries), 1>>)

\* C12: when every delivery is feasible on its own, each singleton is a
\* candidate trip of score exactly 1, the singletons together cover every
\* id exactly once so the cover model has an assignment, and when the
\* solver ends with status OPTIMAL the returned batch is non-empty and its
\* lowest objective is at most N.
C12_SingletonsBoundObjective ==
  (Generated /\ AllSoloFeasible) =>
    /\ \A k \in 1..Len(deliveries) :
         \E i \in SingletonTrips :
            /\ feasible_trips[i].shipment_ids = <<deliveries[k].id>>
            /\ feasible_trips[i].score = <<1, 1>>
            /\ \A j \in SingletonTrips :
                 feasible_trips[j].shipment_ids = <<deliveries[k].id>> => j = i
    /\ SingletonTrips \in ExactCovers(DeliveryIds, {})
    /\ pc = "write" => status \in {"OPTIMAL", "TIME_LIMIT"}
    /\ (pc = "write" /\ status = "OPTIMAL") =>
         /\ Len(solutions) >= 1
         /\ QLeq(solutions[1].obj, <<Len(deliveries), 1>>)

\* several deliveries, each feasible on its own, solved to optimality by a
\* selection that bundles some of them
C12_Witness ==
  /\ pc = "write"
  /\ status = "OPTIMAL"
  /\ AllSoloFeasible
  /\ Len(deliveries) >= 2
  /\ Len(solutions) >= 1
  /\ QLess(solutions[1].obj, <<Len(deliveries), 1>>)

====
